---- MODULE Spec2Model ----
(***************************************************************************)
(* Spectral induced polarisation (SIP) relaxation models of                *)
(* pygimli/physics/SIP/models.py: the closed-form Cole-Cole / Debye        *)
(* functions and the modelling operators built on them.                    *)
(*                                                                         *)
(* Numbers.  A Python / numpy float is modelled by an exact extended       *)
(* rational <<n, d>>: d > 0 is the fraction n/d in lowest terms, and d = 0 *)
(* is a non-finite value: <<1,0>> is inf, <<-1,0>> is -inf, <<0,0>> is     *)
(* nan.  Rounding is not modelled.  A complex number is a record [re, im]. *)
(*                                                                         *)
(* Frequencies.  pi is irrational, so a frequency is given in units of     *)
(* 1/(2 pi) Hz: the model's f stands for the source's f * 2. * pi.         *)
(*                                                                         *)
(* Exponents.  (i x)**c has rational real and imaginary parts only for     *)
(* c = 1 (Debye) and, when x/2 is the square of a rational, for c = 1/2    *)
(* (Warburg); these are the exponents the model evaluates.                 *)
(***************************************************************************)
EXTENDS Integers, Sequences, FiniteSets, TLC

VARIABLES fn, args, ret, self, out

vars == <<fn, args, ret, self, out>>

(***************************************************************************)
(* Extended rational arithmetic (float semantics of + - * /).              *)
(***************************************************************************)
Abs(x) == IF x < 0 THEN -x ELSE x

Sign(x) == IF x > 0 THEN 1 ELSE IF x < 0 THEN -1 ELSE 0

RECURSIVE GCD(_, _)
GCD(a, b) == IF b = 0 THEN a ELSE GCD(b, a % b)

Norm(n, d) ==
    IF d = 0 THEN <<Sign(n), 0>>
    ELSE LET g == GCD(Abs(n), Abs(d))
         IN  <<(Sign(d) * n) \div g, Abs(d) \div g>>

Q(n, d) == Norm(n, d)

Inf == <<1, 0>>

NaN == <<0, 0>>

IsFinite(x) == x[2] # 0

RNeg(x) == <<-x[1], x[2]>>

RAdd(x, y) ==
    IF x[2] = 0 /\ y[2] = 0 THEN (IF x[1] = y[1] THEN x ELSE NaN)
    ELSE IF x[2] = 0 THEN x
    ELSE IF y[2] = 0 THEN y
    ELSE LET g == GCD(x[2], y[2])
         IN  Norm(x[1] * (y[2] \div g) + y[1] * (x[2] \div g),
                  (x[2] \div g) * y[2])

RSub(x, y) == RAdd(x, RNeg(y))

RMul(x, y) ==
    IF x[2] = 0 \/ y[2] = 0 THEN <<Sign(x[1]) * Sign(y[1]), 0>>
    ELSE LET g1 == GCD(Abs(x[1]), y[2])
             g2 == GCD(Abs(y[1]), x[2])
         IN  Norm((x[1] \div g1) * (y[1] \div g2),
                  (x[2] \div g2) * (y[2] \div g1))

\* 1/x of numpy: 1/0 is inf (the zero of the model is +0.0), 1/inf is 0.
RInv(x) ==
    IF x[2] = 0 THEN (IF x[1] = 0 THEN NaN ELSE <<0, 1>>)
    ELSE IF x[1] = 0 THEN Inf
    ELSE <<Sign(x[1]) * x[2], Abs(x[1])>>

\* x / y of numpy: x/0 is inf with the sign of x, 0/0 is nan.
RDiv(x, y) ==
    IF IsFinite(y) /\ y[1] = 0
    THEN (IF IsFinite(x) THEN <<Sign(x[1]), 0>> ELSE <<x[1], 0>>)
    ELSE RMul(x, RInv(y))

\* Comparisons of finite values.
RLeq(x, y) == RAdd(y, <<-x[1], x[2]>>)[1] >= 0

RLt(x, y) == RAdd(y, <<-x[1], x[2]>>)[1] > 0

RAbs(x) == <<Abs(x[1]), x[2]>>

RMax(x, y) == IF RLeq(x, y) THEN y ELSE x

Zero == <<0, 1>>

One == <<1, 1>>

RECURSIVE RPowInt(_, _)
RPowInt(x, k) == IF k = 0 THEN One ELSE RMul(x, RPowInt(x, k - 1))

\* The largest k with k*k <= n, by bisection on lo..hi (lo*lo <= n < hi*hi).
RECURSIVE Bisect(_, _, _)
Bisect(n, lo, hi) ==
    IF hi - lo <= 1 THEN lo
    ELSE LET mid == (lo + hi) \div 2
         IN  IF mid * mid <= n THEN Bisect(n, mid, hi) ELSE Bisect(n, lo, mid)

\* 46341 is the least integer whose square exceeds the 32-bit integers.
ISqrt(n) == Bisect(n, 0, IF n < 46341 THEN n + 1 ELSE 46341)

IsSquare(n) == ISqrt(n) * ISqrt(n) = n

\* A finite x >= 0 has an exact square root iff numerator and denominator
\* (lowest terms) are squares.
HasSqrt(x) == IsFinite(x) /\ x[1] >= 0 /\ IsSquare(x[1]) /\ IsSquare(x[2])

RSqrt(x) == <<ISqrt(x[1]), ISqrt(x[2])>>

(***************************************************************************)
(* Complex arithmetic.                                                     *)
(***************************************************************************)
C(re, im) == [re |-> re, im |-> im]

CReal(x) == C(x, Zero)

CIsFinite(z) == IsFinite(z.re) /\ IsFinite(z.im)

CAdd(z, w) == C(RAdd(z.re, w.re), RAdd(z.im, w.im))

CSub(z, w) == C(RSub(z.re, w.re), RSub(z.im, w.im))

CMul(z, w) ==
    C(RSub(RMul(z.re, w.re), RMul(z.im, w.im)),
      RAdd(RMul(z.re, w.im), RMul(z.im, w.re)))

\* 1/z = conj(z) / |z|^2.  A finite z is first written (g/l)(a + ib) with
\* coprime integers a, b, which keeps the squares small.
CInv(z) ==
    IF CIsFinite(z) /\ (z.re[1] # 0 \/ z.im[1] # 0)
    THEN LET d  == GCD(z.re[2], z.im[2])
             l  == (z.re[2] \div d) * z.im[2]
             a0 == z.re[1] * (z.im[2] \div d)
             b0 == z.im[1] * (z.re[2] \div d)
             g  == GCD(Abs(a0), Abs(b0))
             a  == a0 \div g
             b  == b0 \div g
             n2 == a * a + b * b
         IN  C(RMul(Q(l, g), Q(a, n2)), RMul(Q(l, g), Q(-b, n2)))
    ELSE LET n2 == RAdd(RMul(z.re, z.re), RMul(z.im, z.im))
         IN  C(RDiv(z.re, n2), RDiv(RNeg(z.im), n2))

RECURSIVE CPowInt(_, _)
CPowInt(z, k) == IF k = 0 THEN CReal(One) ELSE CMul(z, CPowInt(z, k - 1))

\* The principal square root p + iq of z: p = sqrt((|z| + re)/2),
\* q = sgn(im) sqrt((|z| - re)/2), with sgn(0) = +1.
CAbs2(z) == RAdd(RMul(z.re, z.re), RMul(z.im, z.im))

CSqrtDefined(z) ==
    /\ CIsFinite(z)
    /\ HasSqrt(CAbs2(z))
    /\ HasSqrt(RMul(RAdd(RSqrt(CAbs2(z)), z.re), Q(1, 2)))
    /\ HasSqrt(RMul(RSub(RSqrt(CAbs2(z)), z.re), Q(1, 2)))

CSqrt(z) ==
    LET r == RSqrt(CAbs2(z))
        p == RSqrt(RMul(RAdd(r, z.re), Q(1, 2)))
        q == RSqrt(RMul(RSub(r, z.re), Q(1, 2)))
    IN  C(p, IF z.im[1] < 0 THEN RNeg(q) ELSE q)

\* z ** c on the principal branch, for the exponents the model evaluates.
CPowDefined(z, c) == c = One \/ (c = Q(1, 2) /\ CSqrtDefined(z))

CPow(z, c) == IF c = One THEN z ELSE CSqrt(z)

\* x ** (1/c) for a real x >= 0: 1/c is the integer c[2] when c = 1/c[2].
RPowRecip(x, c) == RPowInt(x, RInv(c)[1])

(***************************************************************************)
(* Bounds and the sets inputs are drawn from.                              *)
(***************************************************************************)
\* Frequencies are 2 * 4^k for k in -MaxExp .. MaxExp.
MaxExp == 1

FSet == {Q(2, 4^k) : k \in 1..MaxExp} \cup {Q(2 * 4^k, 1) : k \in 0..MaxExp}

TauSet == {Q(1, 4), One, Q(4, 1)}

\* Chargeabilities in (0,1), and the domain violation m = 1.
MSet == {Q(1, 4), Q(1, 2), Q(3, 4)}

RhoSet == {Q(1, 2), One, Q(10, 1)}

\* Cole-Cole exponents: Debye (c = 1) and Warburg (c = 0.5).
CSet == {One, Q(1, 2)}

\* The Python type of a scalar argument.
TypeSet == {"float", "numpy.float64"}

(***************************************************************************)
(* Physical models.                                                        *)
(***************************************************************************)
\* 1. / ((f * 2. * pi * tau * 1j)**c + 1.)**a
relaxationTerm(f, tau, c, a) ==
    CInv(CPowInt(CAdd(CPow(C(Zero, RMul(f, tau)), c), CReal(One)), a))

relaxationTermDefined(f, tau, c) == CPowDefined(C(Zero, RMul(f, tau)), c)

\* A slip: the inner "1. -" dropped, (1. - m * relaxationTerm(...)) * rho.
ColeColeRhoNoComplement(f, rho, m, tau, c, a) ==
    CMul(CSub(CReal(One), CMul(CReal(m), relaxationTerm(f, tau, c, a))),
         CReal(rho))

\* (1. - m * (1. - relaxationTerm(f, tau, c, a))) * rho
ColeColeRho(f, rho, m, tau, c, a) ==
    CMul(CSub(CReal(One),
              CMul(CReal(m), CSub(CReal(One), relaxationTerm(f, tau, c, a)))),
         CReal(rho))

\* A slip: every division taken as numpy's, which never raises.
TrueDivNeverRaises(x, y, type) == [exc |-> "none", value |-> RDiv(x, y)]

\* x / y for real scalars: a built-in float raises ZeroDivisionError on a zero
\* divisor, a numpy scalar or array yields inf or nan (and a warning).
TrueDiv(x, y, type) ==
    IF type = "float" /\ IsFinite(y) /\ y[1] = 0
    THEN [exc |-> "ZeroDivisionError", value |-> NaN]
    ELSE [exc |-> "none", value |-> RDiv(x, y)]

\* (1. + m / (1-m) * (1. - relaxationTerm(f, tau, c, a))) * sigma
\* mType is the Python type of the argument m; m / (1-m) is evaluated first.
ColeColeSigma(f, sigma, m, tau, c, a, mType) ==
    LET q == TrueDiv(m, RSub(One, m), mType)
    IN  IF q.exc # "none" THEN [exc |-> q.exc, value |-> C(NaN, NaN)]
        ELSE [exc |-> "none",
              value |->
                CMul(CAdd(CReal(One),
                          CMul(CReal(q.value),
                               CSub(CReal(One), relaxationTerm(f, tau, c, a)))),
                     CReal(sigma))]

\* A slip: the docstring's formula, tRho / (1-m) ** (1/c).
tauRhoToTauSigmaDivided(tRho, m, c) == RDiv(tRho, RPowRecip(RSub(One, m), c))

\* tRho * (1-m) ** (1/c)
tauRhoToTauSigma(tRho, m, c) == RMul(tRho, RPowRecip(RSub(One, m), c))

\* ColeCole: for backward compatibility.
ColeCole(f, R, m, tau, c, a) == ColeColeRho(f, R, m, tau, c, a)

(***************************************************************************)
(* The function layer: calls of the public functions.                      *)
(***************************************************************************)
NoObject == [cls |-> "none"]

NoOut == [call |-> "none", par |-> <<>>, exc |-> "none", value |-> <<>>]

\* The arguments of one call are drawn from the input sets; sigma is drawn
\* from the same set as rho.
ArgSet ==
    [f : FSet \cup {Zero}, rho : RhoSet, m : MSet \cup {One}, mType : TypeSet,
     tau : TauSet, c : CSet]

InitFn ==
    /\ fn = "none"
    /\ args \in ArgSet
    /\ ret = [exc |-> "none", value |-> Zero]
    /\ self = NoObject
    /\ out = NoOut

CallColeColeRho ==
    /\ fn = "none"
    /\ relaxationTermDefined(args.f, args.tau, args.c)
    /\ fn' = "ColeColeRho"
    /\ ret' = [exc |-> "none",
               value |-> ColeColeRho(args.f, args.rho, args.m, args.tau, args.c, 1)]
    /\ UNCHANGED <<args, self, out>>

CallColeColeSigma ==
    /\ fn = "none"
    /\ relaxationTermDefined(args.f, args.tau, args.c)
    /\ fn' = "ColeColeSigma"
    /\ ret' = ColeColeSigma(args.f, args.rho, args.m, args.tau, args.c, 1,
                            args.mType)
    /\ UNCHANGED <<args, self, out>>

\* The example of tauRhoToTauSigma's docstring, for any arguments:
\*   Z = ColeColeRho(f, rho, m, tau=tr, c);  ts = tauRhoToTauSigma(tr, m, c)
\*   S = ColeColeSigma(f, sigma=1/rho, m, tau=ts, c)
Example ==
    LET Z  == ColeColeRho(args.f, args.rho, args.m, args.tau, args.c, 1)
        ts == tauRhoToTauSigma(args.tau, args.m, args.c)
        S  == ColeColeSigma(args.f, RInv(args.rho), args.m, ts, args.c, 1,
                            args.mType)
    IN  /\ fn = "none"
        /\ relaxationTermDefined(args.f, args.tau, args.c)
        /\ relaxationTermDefined(args.f, ts, args.c)
        /\ fn' = "Example"
        /\ ret' = [exc |-> S.exc, value |-> [Z |-> Z, ts |-> ts, S |-> S.value]]
        /\ UNCHANGED <<args, self, out>>

NextFn == CallColeColeRho \/ CallColeColeSigma \/ Example

SpecFn == InitFn /\ [][NextFn]_vars

(***************************************************************************)
(* The modelling operators.  self is the one instance under consideration  *)
(* (NoObject before construction); out records the last call on it: the    *)
(* method, its arguments, the exception it ended in and the value returned.*)
(***************************************************************************)
\* Grids and parameter vectors have at most MaxLen entries.
MaxLen == 2

SeqsUpTo(S, n) == UNION {[1..k -> S] : k \in 0..n}

\* Frequency grids of the Cole-Cole operators, and their parameter vectors
\* (m, tau, c).
ColeGridSet == SeqsUpTo(FSet, MaxLen)

ColeParSet == {<<m, tau, c>> : m \in MSet, tau \in TauSet, c \in CSet}

\* Grids of the Debye decomposition: frequencies, relaxation times (0 is a
\* valid entry), spectral chargeabilities.
FGridSet == SeqsUpTo({One, Q(2, 1)}, MaxLen)

TGridSet == SeqsUpTo({Zero, Q(1, 2)}, MaxLen)

ParSet == SeqsUpTo({Q(1, 4), Q(1, 2)}, MaxLen)

Min(a, b) == IF a <= b THEN a ELSE b

\* np.angle(z) is atan2(im, re) in (-pi, pi]; it is represented by its sign,
\* its tangent and whether it lies beyond a right angle.
Angle(z) ==
    [sign   |-> IF z.im[1] > 0 THEN 1
                ELSE IF z.im[1] < 0 THEN -1
                ELSE IF z.re[1] < 0 THEN 1 ELSE 0,
     tan    |-> IF z.im[1] = 0 THEN Zero ELSE RDiv(z.im, z.re),
     obtuse |-> z.re[1] < 0]

\* -phi
NegAngle(phi) ==
    [sign |-> -phi.sign, tan |-> RNeg(phi.tan), obtuse |-> phi.obtuse]

Called(call, par, exc, value) ==
    [call |-> call, par |-> par, exc |-> exc, value |-> value]

(* ColeColePhi *)

ColeColePhi_init(f) ==
    /\ self = NoObject
    /\ self' = [cls |-> "ColeColePhi", f_ |-> f, mesh |-> 3]
    /\ out' = Called("ColeColePhi.__init__", <<f>>, "none", <<>>)
    /\ UNCHANGED <<fn, args, ret>>

\* A slip: the sign of the phase not flipped, np.angle(spec).
ColeColePhi_responseNotNegated(f_, par) ==
    [i \in 1..Len(f_) |-> Angle(ColeCole(f_[i], One, par[1], par[2], par[3], 1))]

\* spec = ColeCole(self.f_, 1.0, par[0], par[1], par[2]); -np.angle(spec)
ColeColePhi_response(f_, par) ==
    [i \in 1..Len(f_) |->
        NegAngle(Angle(ColeCole(f_[i], One, par[1], par[2], par[3], 1)))]

ColeColePhi_call_response(par) ==
    /\ self.cls = "ColeColePhi"
    /\ \A i \in 1..Len(self.f_) : relaxationTermDefined(self.f_[i], par[2], par[3])
    /\ out' = Called("ColeColePhi.response", par, "none",
                     ColeColePhi_response(self.f_, par))
    /\ UNCHANGED <<fn, args, ret, self>>

(* DebyePhi *)

\* A slip: grids checked at construction.
GridErrorIfEmpty(fvec, tvec) ==
    IF Len(fvec) = 0 \/ Len(tvec) = 0 THEN "InvalidArgumentError" ELSE "none"

\* What the constructors of the Debye operators do about their grids: nothing
\* in them checks a length or an entry.
GridError(fvec, tvec) == "none"

DebyePhi_init(fvec, tvec) ==
    /\ self = NoObject
    /\ out' = Called("DebyePhi.__init__", <<fvec, tvec>>, GridError(fvec, tvec), <<>>)
    /\ self' = IF GridError(fvec, tvec) # "none" THEN NoObject
               ELSE [cls |-> "DebyePhi", f_ |-> fvec, nf_ |-> Len(fvec),
                     t_ |-> tvec, mesh |-> Len(tvec)]
    /\ UNCHANGED <<fn, args, ret>>

\* y = np.ones(nf_); for (tau, mk) in zip(t_, par):
\*     y -= (1. - relaxationTerm(f_, tau)) * mk
\* zip pairs t_ and par up to the shorter of the two; k is the next pair, and
\* the update is elementwise in f_: DebyeSumAt is entry i of y.
RECURSIVE DebyeSumAt(_, _, _, _, _)
DebyeSumAt(yi, fi, t_, par, k) ==
    IF k > Min(Len(t_), Len(par)) THEN yi
    ELSE DebyeSumAt(
           CSub(yi, CMul(CSub(CReal(One), relaxationTerm(fi, t_[k], One, 1)),
                         CReal(par[k]))),
           fi, t_, par, k + 1)

DebyeSum(f_, t_, par) ==
    [i \in 1..Len(f_) |-> DebyeSumAt(CReal(One), f_[i], t_, par, 1)]

\* A slip: a par whose length is not that of the time grid is refused.
DebyePhi_responseChecked(o, par) ==
    IF Len(par) # Len(o.t_)
    THEN [exc |-> "InvalidArgumentError", value |-> <<>>]
    ELSE [exc |-> "none",
          value |->
            [i \in 1..o.nf_ |-> NegAngle(Angle(DebyeSum(o.f_, o.t_, par)[i]))]]

\* return -np.angle(y)
DebyePhi_response(o, par) ==
    [exc |-> "none",
     value |->
       [i \in 1..o.nf_ |-> NegAngle(Angle(DebyeSum(o.f_, o.t_, par)[i]))]]

DebyePhi_call_response(par) ==
    /\ self.cls = "DebyePhi"
    /\ LET r == DebyePhi_response(self, par)
       IN  out' = Called("DebyePhi.response", par, r.exc, r.value)
    /\ UNCHANGED <<fn, args, ret, self>>

(* DebyeComplex *)

\* wt2 / (wt2 + 1.0), and WT**2 / (WT**2 + 1)
SensRe(wt) == RDiv(RMul(wt, wt), RAdd(RMul(wt, wt), One))

\* A slip: wt / (wt + 1.0).
SensImNotSquared(wt) == RDiv(wt, RAdd(wt, One))

\* wt / (wt2 + 1.0), and WT / (WT**2+1)
SensIm(wt) == RDiv(wt, RAdd(RMul(wt, wt), One))

\* self.J.resize(rows, cols): the zero matrix.
Resized(rows, cols) == [r \in 1..rows |-> [k \in 1..cols |-> Zero]]

\* A slip: the second block written from row i + 1 on.
RECURSIVE FillRowsOverlapping(_, _, _, _)
FillRowsOverlapping(J, fvec, tvec, i) ==
    IF i > Len(fvec) THEN J
    ELSE FillRowsOverlapping(
           [J EXCEPT ![i] = [k \in 1..Len(tvec) |-> SensRe(RMul(fvec[i], tvec[k]))],
                     ![i + 1] =
                         [k \in 1..Len(tvec) |-> SensIm(RMul(fvec[i], tvec[k]))]],
           fvec, tvec, i + 1)

\* for i in range(self.nf):
\*     wt = fvec[i] * 2.0 * pi * tvec;  wt2 = wt**2
\*     self.J[i] = wt2 / (wt2 + 1.0);  self.J[i+self.nf] = wt / (wt2 + 1.0)
RECURSIVE FillRows(_, _, _, _)
FillRows(J, fvec, tvec, i) ==
    IF i > Len(fvec) THEN J
    ELSE FillRows(
           [J EXCEPT ![i] = [k \in 1..Len(tvec) |-> SensRe(RMul(fvec[i], tvec[k]))],
                     ![i + Len(fvec)] =
                         [k \in 1..Len(tvec) |-> SensIm(RMul(fvec[i], tvec[k]))]],
           fvec, tvec, i + 1)

\* T, W = np.meshgrid(tvec, fvec * 2. * pi);  WT = W*T
WT(fvec, tvec) ==
    [i \in 1..Len(fvec) |-> [k \in 1..Len(tvec) |-> RMul(fvec[i], tvec[k])]]

DebyeComplex_init(fvec, tvec) ==
    /\ self = NoObject
    /\ out' = Called("DebyeComplex.__init__", <<fvec, tvec>>, GridError(fvec, tvec), <<>>)
    /\ self' = IF GridError(fvec, tvec) # "none" THEN NoObject
               ELSE [cls |-> "DebyeComplex",
                     f |-> fvec, nf |-> Len(fvec), t |-> tvec, nt |-> Len(tvec),
                     mesh |-> Len(tvec),
                     A |-> [i \in 1..Len(fvec) |->
                              [k \in 1..Len(tvec) |-> SensRe(WT(fvec, tvec)[i][k])]],
                     B |-> [i \in 1..Len(fvec) |->
                              [k \in 1..Len(tvec) |-> SensIm(WT(fvec, tvec)[i][k])]],
                     J |-> FillRows(Resized(Len(fvec) * 2, Len(tvec)),
                                    fvec, tvec, 1)]
    /\ UNCHANGED <<fn, args, ret>>

RECURSIVE Dot(_, _, _)
Dot(row, par, k) ==
    IF k > Len(row) THEN Zero
    ELSE RAdd(RMul(row[k], par[k]), Dot(row, par, k + 1))

\* J * par: the matrix-vector product.
MatVec(J, par) == [r \in 1..Len(J) |-> Dot(J[r], par, 1)]

\* A slip: the response of the Debye sum itself, 1 - J * par.
DebyeComplex_responseOfSum(o, par) ==
    [r \in 1..Len(o.J) |-> RSub(One, MatVec(o.J, par)[r])]

\* return self.J * par
DebyeComplex_response(o, par) == MatVec(o.J, par)

\* J * par is taken for a par of nt entries.
DebyeComplex_call_response(par) ==
    /\ self.cls = "DebyeComplex"
    /\ Len(par) = self.nt
    /\ out' = Called("DebyeComplex.response", par, "none",
                     DebyeComplex_response(self, par))
    /\ UNCHANGED <<fn, args, ret, self>>

\* A slip: createJacobian rebuilding the matrix from its argument.
DebyeComplex_createJacobianRebuilds(o, par) ==
    [o EXCEPT !.J = Resized(o.nf * 2, Len(par))]

\* pass
DebyeComplex_createJacobian(o, par) == o

DebyeComplex_call_createJacobian(par) ==
    /\ self.cls = "DebyeComplex"
    /\ self' = DebyeComplex_createJacobian(self, par)
    /\ out' = Called("DebyeComplex.createJacobian", par, "none", <<>>)
    /\ UNCHANGED <<fn, args, ret>>

InitOp ==
    /\ fn = "none"
    /\ args = [f |-> Zero]
    /\ ret = [exc |-> "none", value |-> Zero]
    /\ self = NoObject
    /\ out = NoOut

\* The single-relaxation phase operator.
NextCole ==
    \/ \E f \in ColeGridSet : ColeColePhi_init(f)
    \/ \E par \in ColeParSet : ColeColePhi_call_response(par)

SpecCole == InitOp /\ [][NextCole]_vars

\* The Debye decomposition with its analytic Jacobian.
NextDebye ==
    \/ \E fvec \in FGridSet, tvec \in TGridSet : DebyeComplex_init(fvec, tvec)
    \/ \E par \in ParSet : DebyeComplex_call_response(par)
    \/ \E par \in ParSet : DebyeComplex_call_createJacobian(par)

SpecDebye == InitOp /\ [][NextDebye]_vars

\* Both Debye decomposition operators.
NextOp ==
    \/ \E fvec \in FGridSet, tvec \in TGridSet : DebyePhi_init(fvec, tvec)
    \/ \E par \in ParSet : DebyePhi_call_response(par)
    \/ NextDebye

SpecOp == InitOp /\ [][NextOp]_vars

(***************************************************************************)
(* Properties of the function layer.                                       *)
(***************************************************************************)
InUnitOpen(m) == RLt(Zero, m) /\ RLt(m, One)

Within(x, y, tol) == RLeq(RAbs(RSub(x, y)), tol)

\* X = (i f tau)**c of the call's arguments; |X| <= |Re X| + |Im X| and
\* |X| >= max(|Re X|, |Im X|), so TolLow -> 0 as f -> 0+ and TolHigh -> 0 as
\* f -> infinity.
ArgX == CPow(C(Zero, RMul(args.f, args.tau)), args.c)

TolLow == RMul(RMul(args.rho, args.m), RAdd(RAbs(ArgX.re), RAbs(ArgX.im)))

TolHigh == RDiv(RMul(args.rho, args.m), RMax(RAbs(ArgX.re), RAbs(ArgX.im)))

RhoCalled == fn = "ColeColeRho" /\ InUnitOpen(args.m) /\ RLt(Zero, args.f)

\* C2 (as stated) -- ColeColeRho tends to rho*(1-m) as f -> 0+ and to rho as
\* f -> infinity: the value is within TolLow of rho*(1-m) and within TolHigh
\* of rho.
AsymptoticLimitsAsStated ==
    RhoCalled
        => /\ Within(ret.value.re, RMul(args.rho, RSub(One, args.m)), TolLow)
           /\ Within(ret.value.im, Zero, TolLow)
           /\ Within(ret.value.re, args.rho, TolHigh)
           /\ Within(ret.value.im, Zero, TolHigh)

\* C2 (amended) -- ColeColeRho tends to rho as f -> 0+ (relaxation term -> 1)
\* and to rho*(1-m) as f -> infinity (relaxation term -> 0): the value is
\* within TolLow of rho and within TolHigh of rho*(1-m).
AsymptoticLimits ==
    RhoCalled
        => /\ Within(ret.value.re, args.rho, TolLow)
           /\ Within(ret.value.im, Zero, TolLow)
           /\ Within(ret.value.re, RMul(args.rho, RSub(One, args.m)), TolHigh)
           /\ Within(ret.value.im, Zero, TolHigh)

\* Both ends of the frequency range are evaluated: at the low end the value
\* is within 1/4 of rho = 1, but not of rho*(1-m).
AsymptoticLimitsWitness ==
    /\ RhoCalled
    /\ args.rho = One /\ args.m = Q(3, 4) /\ args.c = One
    /\ args.f = Q(2, 4^MaxExp) /\ args.tau = Q(1, 4)
    /\ RLeq(TolLow, Q(1, 4))
    /\ Within(ret.value.re, One, Q(1, 4))
    /\ ~Within(ret.value.re, Q(1, 4), Q(1, 4))

SigmaAtOne == fn = "ColeColeSigma" /\ args.m = One

\* C9 (as stated) -- ColeColeSigma with m == 1 does not raise, plain scalar
\* arguments included: the call completes and returns a non-finite value.
SigmaAtOneNeverRaises ==
    SigmaAtOne => (ret.exc = "none" /\ ~CIsFinite(ret.value))

\* C9 (amended) -- ColeColeSigma with m == 1 raises ZeroDivisionError when m
\* is a built-in Python number, and completes with a non-finite value when m
\* is a numpy scalar or array.
SigmaAtOneByType ==
    SigmaAtOne
        => /\ args.mType = "float" => ret.exc = "ZeroDivisionError"
           /\ args.mType = "numpy.float64"
                 => (ret.exc = "none" /\ ~CIsFinite(ret.value))

\* A numpy m = 1 at a positive frequency: m / (1-m) is inf and the returned
\* value is not finite.
SigmaAtOneWitness ==
    /\ SigmaAtOne
    /\ args.mType = "numpy.float64" /\ args.f = Q(2, 1) /\ args.c = One
    /\ TrueDiv(args.m, RSub(One, args.m), args.mType).value = Inf
    /\ ret.exc = "none"
    /\ ~IsFinite(ret.value.re)

(***************************************************************************)
(* Properties of the modelling operators.                                  *)
(***************************************************************************)
Half == Q(1, 2)

\* The sensitivities in closed form, wt = 2 pi f[i] t[k].
ClosedRe(f, t) == RDiv(RMul(RMul(f, t), RMul(f, t)), RAdd(RMul(RMul(f, t), RMul(f, t)), One))

ClosedIm(f, t) == RDiv(RMul(f, t), RAdd(RMul(RMul(f, t), RMul(f, t)), One))

ClosedJ(f, t) ==
    [r \in 1..(2 * Len(f)) |->
       [k \in 1..Len(t) |->
          IF r <= Len(f) THEN ClosedRe(f[r], t[k])
          ELSE ClosedIm(f[r - Len(f)], t[k])]]

\* C3 -- Jacobian shape and values: a constructed DebyeComplex has a J of
\* 2*nf rows and nt columns with J[i][k] = wt^2/(wt^2+1) and
\* J[nf+i][k] = wt/(wt^2+1) for wt = 2 pi f[i] t[k] (0.5 in both blocks at
\* wt = 1); rows i and nf+i belong to f[i], in input order.
JacobianShapeAndValues ==
    self.cls = "DebyeComplex"
        => /\ self.nf = Len(self.f) /\ self.nt = Len(self.t)
           /\ Len(self.J) = 2 * self.nf
           /\ \A r \in 1..Len(self.J) : Len(self.J[r]) = self.nt
           /\ \A i \in 1..self.nf, k \in 1..self.nt :
                 /\ self.J[i][k] = ClosedRe(self.f[i], self.t[k])
                 /\ self.J[self.nf + i][k] = ClosedIm(self.f[i], self.t[k])
                 /\ RMul(self.f[i], self.t[k]) = One
                       => (self.J[i][k] = Half /\ self.J[self.nf + i][k] = Half)

\* Two frequencies and two relaxation times, wt = 1 at f[1], t[1].
JacobianWitness ==
    /\ self.cls = "DebyeComplex"
    /\ self.f = <<Q(2, 1), One>> /\ self.t = <<Half, Zero>>
    /\ self.J = << <<Half, Zero>>, <<Q(1, 5), Zero>>,
                   <<Half, Zero>>, <<Q(2, 5), Zero>> >>

Scaled(a, v) == [k \in 1..Len(v) |-> RMul(a, v[k])]

Added(v, w) == [k \in 1..Len(v) |-> RAdd(v[k], w[k])]

ScalarSet == {Q(-1, 1), Half, Q(2, 1)}

ParsOfLen(n) == {par \in ParSet : Len(par) = n}

\* C4 -- Linearity: response(a*par1 + b*par2) = a*response(par1) +
\* b*response(par2) for all scalars a, b and parameter vectors of length nt.
ResponseIsLinear ==
    out.call = "DebyeComplex.response"
        => \A a \in ScalarSet, b \in ScalarSet, par2 \in ParsOfLen(self.nt) :
              DebyeComplex_response(self, Added(Scaled(a, out.par), Scaled(b, par2)))
                 = Added(Scaled(a, out.value),
                         Scaled(b, DebyeComplex_response(self, par2)))

\* A response with non-zero entries in both blocks.
ResponseIsLinearWitness ==
    /\ out.call = "DebyeComplex.response"
    /\ self.f = <<Q(2, 1), One>> /\ self.t = <<Half, Half>>
    /\ out.par = <<Q(1, 4), Half>>
    /\ out.value = <<Q(3, 8), Q(3, 20), Q(3, 8), Q(3, 10)>>

\* C5 -- Construction-time state is never mutated: every response or
\* createJacobian call on a constructed DebyeComplex leaves it (f, t, J and
\* the rest) as it is, and a response is J * par for the J of the grids,
\* whatever calls came before.
ConstructionStateNeverMutated ==
    [][self.cls = "DebyeComplex"
          => /\ self' = self
             /\ out'.call = "DebyeComplex.response"
                   => out'.value = MatVec(ClosedJ(self.f, self.t), out'.par)]_vars

\* createJacobian was called with a par of another length than nt; J is the
\* matrix of the grids.
NeverMutatedWitness ==
    /\ out.call = "DebyeComplex.createJacobian"
    /\ out.par = <<Half>>
    /\ self.f = <<One>> /\ self.t = <<Half, Half>>
    /\ self.J = << <<Q(1, 5), Q(1, 5)>>, <<Q(2, 5), Q(2, 5)>> >>

\* C6 -- Phase sign convention: for m in (0,1), tau > 0, c in (0,1] and
\* positive frequencies, ColeColePhi.response has one entry per frequency, in
\* input order, each the non-negative phase -angle(Z) of a Z with Re Z > 0
\* and Im Z <= 0.
PhaseIsNonNegative ==
    out.call = "ColeColePhi.response"
        => /\ Len(out.value) = Len(self.f_)
           /\ \A i \in 1..Len(self.f_) :
                 LET Z == ColeColeRho(self.f_[i], One, out.par[1], out.par[2],
                                      out.par[3], 1)
                 IN  /\ out.value[i].sign >= 0
                     /\ ~out.value[i].obtuse
                     /\ RLt(Zero, Z.re) /\ RLeq(Z.im, Zero)
                     /\ out.value[i].tan = RDiv(RNeg(Z.im), Z.re)

\* Two frequencies in falling order, both phases positive and different.
PhaseWitness ==
    /\ out.call = "ColeColePhi.response"
    /\ self.f_ = <<Q(8, 1), Q(2, 1)>>
    /\ out.par = <<Half, One, Half>>
    /\ out.value[1].sign = 1 /\ out.value[2].sign = 1
    /\ RLt(Zero, out.value[1].tan) /\ RLt(Zero, out.value[2].tan)
    /\ out.value[1].tan # out.value[2].tan

IsDebyeResponse == out.call \in {"DebyePhi.response", "DebyeComplex.response"}

GridLen == IF self.cls = "DebyePhi" THEN Len(self.t_) ELSE self.nt

\* C7 (as stated) -- Shape mismatch: response(par) of a Debye decomposition
\* operator with len(par) # nt ends in InvalidArgumentError and returns no
\* data vector.
ShapeMismatchIsAnError ==
    (IsDebyeResponse /\ Len(out.par) # GridLen)
        => (out.exc = "InvalidArgumentError" /\ out.value = <<>>)

\* 1 - sum over the first n pairs of (ClosedRe + i ClosedIm) * par[k].
RECURSIVE PairedSum(_, _, _, _)
PairedSum(f, t, par, n) ==
    IF n = 0 THEN CReal(One)
    ELSE CSub(PairedSum(f, t, par, n - 1),
              C(RMul(ClosedRe(f, t[n]), par[n]), RMul(ClosedIm(f, t[n]), par[n])))

\* C7 (amended) -- DebyePhi.response(par) with len(par) # nt raises nothing:
\* it returns the nf phases of the Debye sum over the first
\* min(nt, len(par)) pairs (t[k], par[k]), ignoring the surplus entries.
ShapeMismatchIsTruncated ==
    (out.call = "DebyePhi.response" /\ Len(out.par) # Len(self.t_))
        => /\ out.exc = "none"
           /\ Len(out.value) = self.nf_
           /\ \A i \in 1..self.nf_ :
                 out.value[i] =
                    NegAngle(Angle(PairedSum(self.f_[i], self.t_, out.par,
                                             Min(Len(self.t_), Len(out.par)))))

\* Two relaxation times and one chargeability: the second time is ignored.
ShapeMismatchWitness ==
    /\ out.call = "DebyePhi.response"
    /\ self.f_ = <<One>> /\ self.t_ = <<Half, Half>>
    /\ out.par = <<Half>>
    /\ out.exc = "none"
    /\ out.value = <<[sign |-> 1, tan |-> Q(2, 9), obtuse |-> FALSE]>>

IsDebyeInit == out.call \in {"DebyePhi.__init__", "DebyeComplex.__init__"}

EmptyGridGiven == IsDebyeInit /\ (Len(out.par[1]) = 0 \/ Len(out.par[2]) = 0)

\* C8 (as stated) -- Grid validation: constructing a Debye decomposition
\* operator with an empty frequency or relaxation-time sequence ends in
\* InvalidArgumentError, so no instance has nf = 0 or nt = 0.
EmptyGridIsAnError ==
    /\ EmptyGridGiven => (out.exc = "InvalidArgumentError" /\ self = NoObject)
    /\ self.cls = "DebyePhi" => (Len(self.f_) > 0 /\ Len(self.t_) > 0)
    /\ self.cls = "DebyeComplex" => (self.nf > 0 /\ self.nt > 0)

\* C8 (amended) -- The constructors check nothing: with an empty frequency or
\* relaxation-time sequence construction completes, and the instance has
\* nf = 0 or nt = 0 (for DebyeComplex a Jacobian of 2*nf rows of nt columns,
\* so zero rows or zero columns).
EmptyGridIsAccepted ==
    EmptyGridGiven
        => /\ out.exc = "none"
           /\ out.call = "DebyePhi.__init__"
                 => /\ self.cls = "DebyePhi"
                    /\ self.f_ = out.par[1] /\ self.t_ = out.par[2]
                    /\ self.nf_ = Len(out.par[1])
           /\ out.call = "DebyeComplex.__init__"
                 => /\ self.cls = "DebyeComplex"
                    /\ self.nf = Len(out.par[1]) /\ self.nt = Len(out.par[2])
                    /\ Len(self.J) = 2 * self.nf
                    /\ \A r \in 1..Len(self.J) : Len(self.J[r]) = self.nt

\* A DebyeComplex built on one frequency and no relaxation time: two rows of
\* no columns.
EmptyGridWitness ==
    /\ out.call = "DebyeComplex.__init__"
    /\ out.par = << <<One>>, <<>> >>
    /\ self.cls = "DebyeComplex"
    /\ self.nt = 0
    /\ self.J = << <<>>, <<>> >>

AddUnit(par, k) == [par EXCEPT ![k] = RAdd(@, One)]

\* The Debye sum y of DebyePhi on the grids of self.
SumY(par) == DebyeSum(self.f, self.t, par)

\* C10 (as stated) -- J is the derivative of the Debye sum
\* y_i = 1 - sum_k (1 - relaxationTerm(f[i], t[k])) par[k]:
\* J[i][k] = d Re(y_i)/d par[k] and J[nf+i][k] = d Im(y_i)/d par[k].  y is
\* affine in par, so a partial derivative is the difference over a unit step.
JacobianIsDerivativeOfSum ==
    out.call = "DebyeComplex.response"
        => \A i \in 1..self.nf :
              /\ \A k \in 1..self.nt :
                    /\ self.J[i][k] =
                          RSub(SumY(AddUnit(out.par, k))[i].re, SumY(out.par)[i].re)
                    /\ self.J[self.nf + i][k] =
                          RSub(SumY(AddUnit(out.par, k))[i].im, SumY(out.par)[i].im)

\* C10 (amended) -- J is the derivative of 1 - y, the negated derivative of
\* the Debye sum y: J[i][k] = -d Re(y_i)/d par[k],
\* J[nf+i][k] = -d Im(y_i)/d par[k], and response(par) = J*par is
\* (1 - Re y ; -Im y) for every par.
JacobianIsDerivativeOfComplement ==
    out.call = "DebyeComplex.response"
        => \A i \in 1..self.nf :
              /\ out.value[i] = RSub(One, SumY(out.par)[i].re)
              /\ out.value[self.nf + i] = RNeg(SumY(out.par)[i].im)
              /\ \A k \in 1..self.nt :
                    /\ self.J[i][k] =
                          RSub(SumY(out.par)[i].re, SumY(AddUnit(out.par, k))[i].re)
                    /\ self.J[self.nf + i][k] =
                          RSub(SumY(out.par)[i].im, SumY(AddUnit(out.par, k))[i].im)

\* A response on wt = 1 and wt = 1/2: y = 3/4 - i/4 and 9/10 - i/5.
DerivativeWitness ==
    /\ out.call = "DebyeComplex.response"
    /\ self.f = <<Q(2, 1), One>> /\ self.t = <<Half>>
    /\ out.par = <<Half>>
    /\ SumY(out.par) = <<C(Q(3, 4), Q(-1, 4)), C(Q(9, 10), Q(-1, 5))>>
    /\ out.value = <<Q(1, 4), Q(1, 10), Q(1, 4), Q(1, 5)>>

====
